---- MODULE Spec2Model ----
(***************************************************************************)
(* Model of pkg/download: Download(client, u, path) fetches a URL,         *)
(* optionally decompresses the body by URL-path suffix, writes it to a     *)
(* temporary file next to the destination and renames it into place.       *)
(*                                                                         *)
(* Strings are sequences of one-character strings, so that Split,          *)
(* HasSuffix and the temporary file's name are computed, not assumed.      *)
(* Compressed streams are abstracted to  magic \o data \o <<0, crc>>;      *)
(* a reader strips the magic, yields the data bytes and verifies the crc.  *)
(***************************************************************************)
EXTENDS Integers, Sequences, FiniteSets, TLC

\* ------------------------------------------------------------------ bounds

\* Calls the caller makes, one after the other.
MaxCalls == 2

\* The callers (goroutines calling Download).
Procs == {1, 2}

\* ----------------------------------------------------------------- strings

Last(s) == s[Len(s)]

\* A suffix test that ignores the case of "g" (not what Download does).
HasSuffixFold(s, suffix) ==
    LET low(c) == IF c = "G" THEN "g" ELSE c
    IN  /\ Len(s) >= Len(suffix)
        /\ \A i \in 1..Len(suffix) :
             low(s[Len(s) - Len(suffix) + i]) = low(suffix[i])

\* strings.HasSuffix(s, suffix)
HasSuffix(s, suffix) ==
    /\ Len(s) >= Len(suffix)
    /\ SubSeq(s, Len(s) - Len(suffix) + 1, Len(s)) = suffix

\* Index of the last "/" of p, 0 when there is none.
LastSlash(p) ==
    LET idx == {i \in 1..Len(p) : p[i] = "/"}
    IN  IF idx = {} THEN 0 ELSE CHOOSE i \in idx : \A j \in idx : j <= i

\* filepath.Split(path): dir keeps its trailing separator.
Split(p) ==
    [dir |-> SubSeq(p, 1, LastSlash(p)), file |-> SubSeq(p, LastSlash(p) + 1, Len(p))]

\* dir left as filepath.Split gave it (not what Download does).
NormDirEmpty(d) == d

\* dir as Download passes it on: "" becomes ".".
NormDir(d) == IF d = <<>> THEN <<".">> ELSE d

\* filepath.Clean of a directory name: no trailing separator.
CleanDir(d) ==
    IF Len(d) > 1 /\ Last(d) = "/" THEN SubSeq(d, 1, Len(d) - 1) ELSE d

\* filepath.Join(dir, name)
Join(d, name) ==
    IF CleanDir(d) = <<".">> THEN name ELSE CleanDir(d) \o <<"/">> \o name

\* The directory a plain os.Mkdir(dir) would make: dir alone.
DirChainLeaf(d) == {CleanDir(d)}

\* The directories os.MkdirAll(dir) makes sure exist: dir and its ancestors.
DirChain(d) ==
    LET c == CleanDir(d)
    IN  {c} \cup {SubSeq(c, 1, i - 1) : i \in {j \in 2..Len(c) : c[j] = "/"}}

\* ------------------------------------------------------------------ codecs

RECURSIVE Sum(_)
Sum(s) == IF s = <<>> THEN 0 ELSE s[1] + Sum(Tail(s))

\* End-of-block marker of the abstract compressed stream; data bytes are not 0.
IsEOB(b) == b = 0

Crc(s) == Sum(s) % 256

GzMagic == <<31, 139>>
BzMagic == <<66, 90>>
XzMagic == <<253, 55>>

Magic(kind) ==
    CASE kind = "gzip"  -> GzMagic
      [] kind = "bzip2" -> BzMagic
      [] kind = "xz"    -> XzMagic

Compress(kind, data) == Magic(kind) \o data \o <<0, Crc(data)>>

\* The error a reader of `kind` reports for a bad magic / a bad checksum.
HeaderErr(kind) ==
    CASE kind = "gzip"  -> "gzip.ErrHeader"
      [] kind = "bzip2" -> "bzip2.StructuralError"
      [] kind = "xz"    -> "xz.errHeaderMagic"

ChecksumErr(kind) ==
    CASE kind = "gzip"  -> "gzip.ErrChecksum"
      [] kind = "bzip2" -> "bzip2.StructuralError"
      [] kind = "xz"    -> "xz.errChecksum"

\* Reading a stream header at offset pos of body: the new offset, or an error
\* (eofErr when nothing is left to read).
ReadHeader(kind, body, pos, eofErr) ==
    LET rest == SubSeq(body, pos + 1, Len(body))
    IN  IF rest = <<>> THEN [ok |-> FALSE, err |-> eofErr, pos |-> pos]
        ELSE IF Len(rest) < Len(Magic(kind))
             THEN [ok |-> FALSE, err |-> "io.ErrUnexpectedEOF", pos |-> pos]
        ELSE IF SubSeq(rest, 1, Len(Magic(kind))) # Magic(kind)
             THEN [ok |-> FALSE, err |-> HeaderErr(kind), pos |-> pos]
        ELSE [ok |-> TRUE, err |-> "", pos |-> pos + Len(Magic(kind))]

\* The reader Download copies from: its kind, the offset into the body, whether
\* it is inside a compressed member (header read, trailer not yet), whether a
\* first header has been read, and the running sum of the member's data.
RawReader ==
    [kind |-> "raw", pos |-> 0, inMember |-> FALSE, started |-> TRUE, sum |-> 0]

\* Readers that all put off reading the header to the first Read (only
\* bzip2's does).
NewReaderLazy(kind, body) ==
    [ok |-> TRUE, err |-> "",
     rd |-> [kind |-> kind, pos |-> 0, inMember |-> FALSE,
             started |-> kind = "raw", sum |-> 0]]

\* gzip.NewReader / bzip2.NewReader / xz.NewReader on the response body.
\* gzip and xz read the header at once; bzip2 reads it on the first Read.
NewReader(kind, body) ==
    CASE kind = "raw" -> [ok |-> TRUE, err |-> "", rd |-> RawReader]
      [] kind = "bzip2" ->
           [ok |-> TRUE, err |-> "",
            rd |-> [kind |-> kind, pos |-> 0, inMember |-> FALSE,
                    started |-> FALSE, sum |-> 0]]
      [] OTHER ->
           LET h == ReadHeader(kind, body, 0,
                      IF kind = "gzip" THEN "io.EOF" ELSE "io.ErrUnexpectedEOF")
           IN  [ok |-> h.ok, err |-> h.err,
                rd |-> [kind |-> kind, pos |-> h.pos, inMember |-> h.ok,
                        started |-> h.ok, sum |-> 0]]

\* A Read that passes the rest of the body on as it is, whatever the reader.
ReadNoVerify(rd, body) ==
    IF rd.pos < Len(body)
    THEN [res |-> "data", bytes |-> <<body[rd.pos + 1]>>, err |-> "",
          rd |-> [rd EXCEPT !.pos = @ + 1]]
    ELSE [res |-> "eof", bytes |-> <<>>, err |-> "", rd |-> rd]

\* One Read of the reader: the bytes it yields (possibly none), end of stream,
\* or an error; and the reader after it.
Read(rd, body) ==
    LET fail(e) == [res |-> "err", bytes |-> <<>>, err |-> e, rd |-> rd]
    IN
    IF rd.kind = "raw" THEN
        IF rd.pos < Len(body)
        THEN [res |-> "data", bytes |-> <<body[rd.pos + 1]>>, err |-> "",
              rd |-> [rd EXCEPT !.pos = @ + 1]]
        ELSE [res |-> "eof", bytes |-> <<>>, err |-> "", rd |-> rd]
    ELSE IF ~rd.inMember THEN
        IF rd.started /\ rd.pos = Len(body)
        THEN [res |-> "eof", bytes |-> <<>>, err |-> "", rd |-> rd]
        ELSE LET h == ReadHeader(rd.kind, body, rd.pos, "io.ErrUnexpectedEOF")
             IN  IF h.ok
                 THEN [res |-> "data", bytes |-> <<>>, err |-> "",
                       rd |-> [rd EXCEPT !.pos = h.pos, !.inMember = TRUE,
                                         !.started = TRUE, !.sum = 0]]
                 ELSE fail(h.err)
    ELSE IF rd.pos = Len(body) THEN fail("io.ErrUnexpectedEOF")
    ELSE IF ~IsEOB(body[rd.pos + 1])
         THEN [res |-> "data", bytes |-> <<body[rd.pos + 1]>>, err |-> "",
               rd |-> [rd EXCEPT !.pos = @ + 1, !.sum = @ + body[rd.pos + 1]]]
    ELSE IF rd.pos + 1 = Len(body) THEN fail("io.ErrUnexpectedEOF")
    ELSE IF body[rd.pos + 2] # rd.sum % 256 THEN fail(ChecksumErr(rd.kind))
    ELSE IF rd.pos + 2 = Len(body)
         THEN [res |-> "eof", bytes |-> <<>>, err |-> "",
               rd |-> [rd EXCEPT !.pos = @ + 2, !.inMember = FALSE]]
    ELSE [res |-> "data", bytes |-> <<>>, err |-> "",
          rd |-> [rd EXCEPT !.pos = @ + 2, !.inMember = FALSE]]

\* A selection that looks at the end of the whole URL, query included.
SelectDecoderByQuery(u) ==
    LET s == u.path \o u.query
    IN  CASE HasSuffix(s, <<"g", "z">>)      -> "gzip"
          [] HasSuffix(s, <<"b", "z", "2">>) -> "bzip2"
          [] HasSuffix(s, <<"x", "z">>)      -> "xz"
          [] OTHER                           -> "raw"

\* The decoder Download selects: a function of u.Path alone, by trailing
\* substring, tested in the order gz, bz2, xz.
SelectDecoder(u) ==
    CASE HasSuffix(u.path, <<"g", "z">>)      -> "gzip"
      [] HasSuffix(u.path, <<"b", "z", "2">>) -> "bzip2"
      [] HasSuffix(u.path, <<"x", "z">>)      -> "xz"
      [] OTHER                                -> "raw"

\* ------------------------------------------------------------- input sets

\* Destination paths: in the working directory, one whose name is another's
\* name followed by a digit, and one in a subdirectory.
DestPaths == { <<"a">>, <<"a", "1">>, <<"d", "/", "a">> }

\* The destinations of the concurrent specification: those of one directory.
ConcPaths == { <<"a">>, <<"a", "1">>, <<"b">> }

\* The destinations of the one-call specification: in the working directory,
\* in a subdirectory, and two levels down.
TreePaths == { <<"a">>, <<"d", "/", "a">>, <<"d", "/", "e", "/", "a">> }

AllPaths == DestPaths \cup ConcPaths \cup TreePaths

\* The random part ioutil.TempFile appends to the name hint.
TmpDigits == { <<"1">>, <<"2">> }

\* os.TempDir(): the system's default directory for temporary files.
TempDir == <<"T">>

\* The directory ioutil.TempFile(dir, pattern) creates the file in: the
\* default directory for temporary files when dir is "".
TmpDirFor(d) == IF d = <<>> THEN TempDir ELSE d

\* Names from a fixed pattern, whatever the destination's base name.
TmpNamesFixedPattern(d, f) == { Join(d, <<"a">> \o x) : x \in TmpDigits }

\* The names ioutil.TempFile(dir, file) may give: file, then the random part.
TmpNamesFor(d, f) == { Join(TmpDirFor(d), f \o x) : x \in TmpDigits }

AllFiles ==
    AllPaths \cup
    UNION { TmpNamesFor(NormDir(Split(q).dir), Split(q).file) : q \in AllPaths }

Url(pth) == [path |-> pth, query |-> <<>>]

\* The requests of the one-caller specification: a URL path and the body the
\* server answers with. Plain bytes; well-formed streams of each format; gzip
\* streams with a wrong checksum, cut inside the data, and cut inside the
\* header; plain bytes under a bz2 and an xz name.
Requests ==
    { [url |-> Url(<<"f">>), status |-> 200,
        body |-> <<1, 2>>],
      [url |-> Url(<<"f", ".", "g", "z">>), status |-> 200,
        body |-> Compress("gzip", <<2, 1>>)],
      [url |-> Url(<<"f", ".", "g", "z">>), status |-> 200,
        body |-> GzMagic \o <<2, 1, 0, 9>>],
      [url |-> Url(<<"f", ".", "g", "z">>), status |-> 200,
        body |-> GzMagic \o <<2>>],
      [url |-> Url(<<"f", ".", "g", "z">>), status |-> 200,
        body |-> <<31>>],
      [url |-> Url(<<"f", ".", "b", "z", "2">>), status |-> 200,
        body |-> Compress("bzip2", <<2, 2>>)],
      [url |-> Url(<<"f", ".", "b", "z", "2">>), status |-> 200,
        body |-> <<1, 2>>],
      [url |-> Url(<<"f", ".", "x", "z">>), status |-> 200,
        body |-> Compress("xz", <<1, 1>>)],
      [url |-> Url(<<"f", ".", "x", "z">>), status |-> 200,
        body |-> <<1, 2>>] }

\* The requests of the concurrent specification.
ConcRequests ==
    { [url |-> Url(<<"f">>), status |-> 200,
        body |-> <<1, 2>>],
      [url |-> Url(<<"f", ".", "g", "z">>), status |-> 200,
        body |-> Compress("gzip", <<2, 1>>)] }

\* The requests of the one-call specification: those above, and answers with
\* the status of an error, one of plain bytes and one of a gzip stream.
OnceRequests ==
    Requests \cup
    { [url |-> Url(<<"f">>), status |-> 500,
        body |-> <<1, 2>>],
      [url |-> Url(<<"f", ".", "g", "z">>), status |-> 404,
        body |-> Compress("gzip", <<2, 1>>)] }

\* Calls in succession: two destinations, two valid responses of different
\* content and one gzip stream with a wrong checksum.
TwicePaths == { <<"a">>, <<"d", "/", "a">> }

TwiceRequests ==
    { [url |-> Url(<<"f">>), status |-> 200,
        body |-> <<1, 2>>],
      [url |-> Url(<<"f", ".", "g", "z">>), status |-> 200,
        body |-> Compress("gzip", <<2, 1>>)],
      [url |-> Url(<<"f", ".", "g", "z">>), status |-> 200,
        body |-> GzMagic \o <<2, 1, 0, 9>>] }

\* ------------------------------------------------------------------ state

VARIABLES
    fsdirs,     \* the directories that exist
    fsfiles,    \* path -> NoFile or [ino, data]: the files that exist
    st,         \* per caller: the locals of its call of Download, and ghosts
    lastRen,    \* ghost: destination path -> the caller whose rename landed last
    durl,       \* decoder specification: the URL
    dkind       \* decoder specification: the decoder selected for it

vars == <<fsdirs, fsfiles, st, lastRen, durl, dkind>>

NoFile == [ino |-> -1, data |-> <<>>]

Nil == [wrap |-> "", cause |-> "nil"]

Exists(files, f) == files[f] # NoFile

\* What is visible at a path: "absent" or the file's content.
Visible(files, f) == IF Exists(files, f) THEN <<"file", files[f].data>> ELSE <<"absent">>

Listing(files) == { f \in AllFiles : Exists(files, f) }

\* Ghost: what the caller noted of its previous call; here of none.
NoCall == [path |-> <<>>, url |-> Url(<<>>), body |-> <<>>, err |-> Nil,
           faulted |-> FALSE, preFiles |-> {}]

IdleProc ==
    [pc |-> "idle", calls |-> 0, fn |-> "Download",
     path |-> <<>>, url |-> Url(<<>>), body |-> <<>>, status |-> 0,
     dir |-> <<>>, file |-> <<>>,
     tmpName |-> <<>>, ino |-> 0, tmpOpen |-> FALSE, moved |-> FALSE,
     defers |-> <<>>, bodyOpen |-> FALSE, rd |-> RawReader, err |-> Nil,
     \* ghosts
     pre |-> <<"absent">>, preFiles |-> {}, preDirs |-> {}, log |-> <<>>,
     failStage |-> "none", faulted |-> FALSE, foreign |-> FALSE,
     dclose |-> "none", prev |-> NoCall]

Active(p) == st[p].pc \notin {"idle", "done"}

\* The identity given to a newly created file: the least one not in use.
FreshIno ==
    LET used == { fsfiles[f].ino : f \in AllFiles } \cup { st[q].ino : q \in Procs }
    IN  CHOOSE n \in 1..(Cardinality(AllFiles) + Cardinality(Procs) + 1) :
            /\ n \notin used
            /\ \A m \in 1..(n - 1) : m \in used

InitFS ==
    /\ \E old \in { {}, {<<"a">>}, {<<"a">>, <<"d", "/", "a">>} } :
          /\ fsdirs = { CleanDir(NormDir(Split(f).dir)) : f \in old \cup {<<"a">>} }
                         \cup {TempDir}
          /\ fsfiles = [f \in AllFiles |->
                          IF f \in old THEN [ino |-> 0, data |-> <<7>>] ELSE NoFile]

Init ==
    /\ InitFS
    /\ st = [p \in Procs |-> IdleProc]
    /\ lastRen = [q \in AllPaths |-> 0]
    /\ durl = Url(<<>>)
    /\ dkind = "unset"

\* --------------------------------------------------------------- Download

Logged(rec, ev) == [rec EXCEPT !.log = Append(@, ev)]

\* A return with an error: the deferred calls, if any were registered, run next.
Ret(rec, e, stage, injected) ==
    [rec EXCEPT !.err = e, !.failStage = stage, !.faulted = @ \/ injected,
                !.pc = IF rec.defers = <<>> THEN "done" ELSE "unwind"]

\* The call begins: path is split and an empty dir becomes ".".
Start(p, paths, reqs, maxc) ==
    /\ st[p].pc = "idle"
    /\ st[p].calls < maxc
    /\ \E q \in paths, r \in reqs :
         st' = [st EXCEPT ![p] =
                  [IdleProc EXCEPT
                     !.pc = "mkdir", !.calls = st[p].calls + 1,
                     !.path = q, !.url = r.url, !.body = r.body, !.status = r.status,
                     !.dir = NormDir(Split(q).dir), !.file = Split(q).file,
                     !.pre = Visible(fsfiles, q), !.preFiles = Listing(fsfiles),
                     !.preDirs = fsdirs, !.prev = st[p].prev]]
    /\ UNCHANGED <<fsdirs, fsfiles, lastRen, durl, dkind>>

\* os.MkdirAll(dir, 0o755)
MkdirAll(p) ==
    /\ st[p].pc = "mkdir"
    /\ \/ /\ fsdirs' = fsdirs \cup DirChain(st[p].dir)
          /\ st' = [st EXCEPT ![p] = [Logged(@, "mkdir") EXCEPT !.pc = "tempfile"]]
       \/ /\ CleanDir(st[p].dir) \notin fsdirs
          /\ fsdirs' = fsdirs
          /\ st' = [st EXCEPT ![p] =
                      Ret(Logged(@, "mkdir"),
                          [wrap |-> "", cause |-> "PathError:mkdir"], "mkdir", TRUE)]
    /\ UNCHANGED <<fsfiles, lastRen, durl, dkind>>

\* The names of a TempFile that opens without O_EXCL.
TmpCandidatesNoExcl(rec) == TmpNamesFor(rec.dir, rec.file)

\* The names ioutil.TempFile may create: it opens with O_EXCL, so never a
\* name that exists.
TmpCandidates(rec) ==
    { n \in TmpNamesFor(rec.dir, rec.file) : ~Exists(fsfiles, n) }

\* Only the Close deferred, no cleanup.
DefersNoCleanup == <<"tmpFile.Close">>

\* Only the cleanup deferred, no Close.
DefersNoClose == <<"cleanup">>

\* The deferred calls registered once the temporary file exists, in order.
DefersAfterTempFile == <<"tmpFile.Close", "cleanup">>

\* ioutil.TempFile(dir, file); then the two defers and moved := false.
TempFile(p) ==
    /\ st[p].pc = "tempfile"
    /\ \/ \E n \in TmpCandidates(st[p]) :
            /\ CleanDir(TmpDirFor(st[p].dir)) \in fsdirs
            /\ fsfiles' = [fsfiles EXCEPT ![n] = [ino |-> FreshIno, data |-> <<>>]]
            /\ st' = [st EXCEPT ![p] =
                        [Logged(@, "tempfile") EXCEPT
                           !.pc = "newreq", !.tmpName = n, !.ino = FreshIno,
                           !.tmpOpen = TRUE, !.moved = FALSE,
                           !.defers = DefersAfterTempFile]]
       \/ /\ fsfiles' = fsfiles
          /\ st' = [st EXCEPT ![p] =
                      Ret(Logged(@, "tempfile"),
                          [wrap |-> "create temporary file", cause |-> "PathError:open"],
                          "tempfile", TRUE)]
    /\ UNCHANGED <<fsdirs, lastRen, durl, dkind>>

\* http.NewRequest(http.MethodGet, u.String(), nil)
NewRequest(p) ==
    /\ st[p].pc = "newreq"
    /\ \/ st' = [st EXCEPT ![p] = [Logged(@, "newreq") EXCEPT !.pc = "do"]]
       \/ st' = [st EXCEPT ![p] =
                   Ret(Logged(@, "newreq"),
                       [wrap |-> "", cause |-> "url.Error:parse"], "newreq", TRUE)]
    /\ UNCHANGED <<fsdirs, fsfiles, lastRen, durl, dkind>>

\* No Close of the body deferred.
DefersNoBodyClose(ds) == ds

\* The deferred calls once client.Do has returned a response.
DefersAfterDo(ds) == Append(ds, "resp.Body.Close")

\* A Do followed by a check of the status: anything but 2xx is an error.
DoCheckingStatus(p) ==
    /\ st[p].pc = "do"
    /\ \/ /\ st[p].status \in 200..299
          /\ st' = [st EXCEPT ![p] =
                      [Logged(@, "do") EXCEPT
                         !.pc = "decoder", !.bodyOpen = TRUE,
                         !.defers = DefersAfterDo(@)]]
       \/ /\ st[p].status \notin 200..299
          /\ st' = [st EXCEPT ![p] =
                      Ret([Logged(@, "do") EXCEPT
                             !.bodyOpen = TRUE, !.defers = DefersAfterDo(@)],
                          [wrap |-> "", cause |-> "http.Status"], "status", FALSE)]
       \/ st' = [st EXCEPT ![p] =
                   Ret(Logged(@, "do"),
                       [wrap |-> "", cause |-> "url.Error:Get"], "do", TRUE)]
    /\ UNCHANGED <<fsdirs, fsfiles, lastRen, durl, dkind>>

\* client.Do(req); then defer resp.Body.Close(). The response's status is not
\* looked at.
Do(p) ==
    /\ st[p].pc = "do"
    /\ \/ st' = [st EXCEPT ![p] =
                   [Logged(@, "do") EXCEPT
                      !.pc = "decoder", !.bodyOpen = TRUE,
                      !.defers = DefersAfterDo(@)]]
       \/ st' = [st EXCEPT ![p] =
                   Ret(Logged(@, "do"),
                       [wrap |-> "", cause |-> "url.Error:Get"], "do", TRUE)]
    /\ UNCHANGED <<fsdirs, fsfiles, lastRen, durl, dkind>>

\* The switch on the suffix of u.Path and the reader's construction.
Decoder(p) ==
    /\ st[p].pc = "decoder"
    /\ LET r == NewReader(SelectDecoder(st[p].url), st[p].body)
       IN  \/ /\ r.ok
              /\ st' = [st EXCEPT ![p] =
                          [Logged(@, "decoder") EXCEPT !.pc = "copy", !.rd = r.rd]]
           \/ /\ ~r.ok
              /\ st' = [st EXCEPT ![p] =
                          Ret(Logged(@, "decoder"),
                              [wrap |-> "", cause |-> r.err], "decoder", FALSE)]
           \/ \* the body's Read fails while the header is read
              /\ SelectDecoder(st[p].url) \in {"gzip", "xz"}
              /\ st' = [st EXCEPT ![p] =
                          Ret(Logged(@, "decoder"),
                              [wrap |-> "", cause |-> "net.ReadError"], "decoder", TRUE)]
    /\ UNCHANGED <<fsdirs, fsfiles, lastRen, durl, dkind>>

\* A write straight to the destination path, with no temporary file.
WriteDest(files, rec, bytes) ==
    [files EXCEPT ![rec.path] =
       [ino |-> rec.ino, data |-> (IF Exists(files, rec.path) /\ files[rec.path].ino = rec.ino
                                   THEN files[rec.path].data ELSE <<>>) \o bytes]]

\* tmpFile.Write(bytes): the bytes go to the file the handle was opened on,
\* which is visible at tmpName as long as that name still refers to it.
WriteTmp(files, rec, bytes) ==
    IF Exists(files, rec.tmpName) /\ files[rec.tmpName].ino = rec.ino
    THEN [files EXCEPT ![rec.tmpName].data = @ \o bytes]
    ELSE files

LoggedCopy(rec) == IF Last(rec.log) = "copy" THEN rec ELSE Logged(rec, "copy")

\* io.Copy(tmpFile, r), one Read and one Write at a time.
Copy(p) ==
    /\ st[p].pc = "copy"
    /\ LET r == Read(st[p].rd, st[p].body)
       IN  \/ /\ r.res = "data"
              /\ fsfiles' = WriteTmp(fsfiles, st[p], r.bytes)
              /\ st' = [st EXCEPT ![p] = [LoggedCopy(@) EXCEPT !.rd = r.rd]]
           \/ \* the Write fails
              /\ r.res = "data" /\ r.bytes # <<>>
              /\ fsfiles' = fsfiles
              /\ st' = [st EXCEPT ![p] =
                          Ret(LoggedCopy(@),
                              [wrap |-> "", cause |-> "PathError:write"], "copy", TRUE)]
           \/ /\ r.res = "eof"
              /\ fsfiles' = fsfiles
              /\ st' = [st EXCEPT ![p] = [LoggedCopy(@) EXCEPT !.pc = "close", !.rd = r.rd]]
           \/ /\ r.res = "err"
              /\ fsfiles' = fsfiles
              /\ st' = [st EXCEPT ![p] =
                          Ret(LoggedCopy(@), [wrap |-> "", cause |-> r.err], "copy", FALSE)]
           \/ \* the body's Read fails
              /\ fsfiles' = fsfiles
              /\ st' = [st EXCEPT ![p] =
                          Ret(LoggedCopy(@),
                              [wrap |-> "", cause |-> "net.ReadError"], "copy", TRUE)]
    /\ UNCHANGED <<fsdirs, lastRen, durl, dkind>>

\* tmpFile.Close(): the handle is closed whether or not Close reports an error.
Close(p) ==
    /\ st[p].pc = "close"
    /\ \/ st' = [st EXCEPT ![p] =
                   [Logged(@, "close") EXCEPT !.pc = "rename", !.tmpOpen = FALSE]]
       \/ st' = [st EXCEPT ![p] =
                   Ret([Logged(@, "close") EXCEPT !.tmpOpen = FALSE],
                       [wrap |-> "write and close temporary file",
                        cause |-> "PathError:close"], "close", TRUE)]
    /\ UNCHANGED <<fsdirs, fsfiles, lastRen, durl, dkind>>

\* A copy in place of a rename: src stays.
RenameCopy(files, src, dst) == [files EXCEPT ![dst] = files[src]]

\* os.Rename(src, dst): dst now names what src named, src names nothing.
RenameFiles(files, src, dst) == [files EXCEPT ![dst] = files[src], ![src] = NoFile]

\* moved left false after the rename.
MovedNever == FALSE

\* moved = true after the rename.
MovedAfterRename == TRUE

\* A rename whose error is not looked at: the call returns nil either way.
RenameIgnoringError(p) ==
    /\ st[p].pc = "rename"
    /\ \/ /\ Exists(fsfiles, st[p].tmpName)
          /\ fsfiles' = RenameFiles(fsfiles, st[p].tmpName, st[p].path)
          /\ lastRen' = [lastRen EXCEPT ![st[p].path] = p]
          /\ st' = [st EXCEPT ![p] =
                      [Logged(Logged(st[p], "rename"), "disarm") EXCEPT
                         !.pc = "unwind", !.moved = TRUE, !.err = Nil]]
       \/ /\ UNCHANGED <<fsfiles, lastRen>>
          /\ st' = [st EXCEPT ![p] =
                      [Logged(Logged(st[p], "rename"), "disarm") EXCEPT
                         !.pc = "unwind", !.moved = TRUE, !.err = Nil,
                         !.faulted = TRUE]]
    /\ UNCHANGED <<fsdirs, durl, dkind>>

\* os.Rename(tmpFile.Name(), path); moved = true; return nil
Rename(p) ==
    /\ st[p].pc = "rename"
    /\ \/ /\ Exists(fsfiles, st[p].tmpName)
          /\ fsfiles' = RenameFiles(fsfiles, st[p].tmpName, st[p].path)
          /\ lastRen' = [lastRen EXCEPT ![st[p].path] = p]
          /\ st' = [st EXCEPT ![p] =
                      [(IF MovedAfterRename
                        THEN Logged(Logged(st[p], "rename"), "disarm")
                        ELSE Logged(st[p], "rename")) EXCEPT
                         !.pc = "unwind", !.moved = MovedAfterRename, !.err = Nil,
                         !.foreign = @ \/ fsfiles[st[p].tmpName].ino # st[p].ino]]
       \/ /\ UNCHANGED <<fsfiles, lastRen>>
          /\ st' = [st EXCEPT ![p] =
                      Ret(Logged(@, "rename"),
                          [wrap |-> "", cause |-> "LinkError:rename"], "rename",
                          Exists(fsfiles, st[p].tmpName))]
    /\ UNCHANGED <<fsdirs, durl, dkind>>

\* The deferred calls run last registered first; the call has returned when
\* none is left, and its reader and file identity are gone with it.
Popped(rec) ==
    IF Len(rec.defers) = 1
    THEN [rec EXCEPT !.defers = <<>>, !.pc = "done", !.rd = RawReader, !.ino = 0]
    ELSE [rec EXCEPT !.defers = SubSeq(@, 1, Len(@) - 1)]

\* defer resp.Body.Close()
DeferredBodyClose(p) ==
    /\ st[p].pc = "unwind"
    /\ Last(st[p].defers) = "resp.Body.Close"
    /\ st' = [st EXCEPT ![p] = Popped([Logged(@, "bodyclose") EXCEPT !.bodyOpen = FALSE])]
    /\ UNCHANGED <<fsdirs, fsfiles, lastRen, durl, dkind>>

\* A cleanup that does not look at moved.
CleanupAlways(rec) == TRUE

\* The guard of the deferred cleanup: if !moved.
CleanupArmed(rec) == ~rec.moved

\* A cleanup that removes the destination.
CleanupTargetDest(rec) == rec.path

\* The file the deferred cleanup removes: tmpFile.Name().
CleanupTarget(rec) == rec.tmpName

\* A cleanup whose failure becomes the result of the call.
DeferredCleanupSettingErr(p) ==
    /\ st[p].pc = "unwind"
    /\ Last(st[p].defers) = "cleanup"
    /\ \/ /\ ~CleanupArmed(st[p])
          /\ fsfiles' = fsfiles
          /\ st' = [st EXCEPT ![p] = Popped(@)]
       \/ /\ CleanupArmed(st[p])
          /\ fsfiles' = [fsfiles EXCEPT ![CleanupTarget(st[p])] = NoFile]
          /\ st' = [st EXCEPT ![p] = Popped(Logged(@, "remove"))]
       \/ /\ CleanupArmed(st[p])
          /\ fsfiles' = fsfiles
          /\ st' = [st EXCEPT ![p] =
                      Popped([Logged(@, "remove") EXCEPT
                                !.faulted = TRUE,
                                !.err = [wrap |-> "", cause |-> "PathError:remove"]])]
    /\ UNCHANGED <<fsdirs, lastRen, durl, dkind>>

\* defer func() { if !moved { os.Remove(tmpFile.Name()) } }(): the result of
\* os.Remove is dropped. The handle may still be open here (the deferred Close
\* runs after this), and removing an open file fails on some platforms.
DeferredCleanup(p) ==
    /\ st[p].pc = "unwind"
    /\ Last(st[p].defers) = "cleanup"
    /\ \/ /\ ~CleanupArmed(st[p])
          /\ fsfiles' = fsfiles
          /\ st' = [st EXCEPT ![p] = Popped(@)]
       \/ /\ CleanupArmed(st[p])
          /\ fsfiles' = [fsfiles EXCEPT ![CleanupTarget(st[p])] = NoFile]
          /\ st' = [st EXCEPT ![p] =
                      Popped([Logged(@, "remove") EXCEPT
                                !.foreign = @ \/ (/\ Exists(fsfiles, CleanupTarget(st[p]))
                                                  /\ fsfiles[CleanupTarget(st[p])].ino # st[p].ino)])]
       \/ \* os.Remove fails
          /\ CleanupArmed(st[p])
          /\ fsfiles' = fsfiles
          /\ st' = [st EXCEPT ![p] = Popped([Logged(@, "remove") EXCEPT !.faulted = TRUE])]
    /\ UNCHANGED <<fsdirs, lastRen, durl, dkind>>

\* Once the call is over the identity of the file it created no longer matters.
Released(files, i) ==
    [f \in AllFiles |-> IF files[f].ino = i THEN [files[f] EXCEPT !.ino = 0] ELSE files[f]]

\* The result of tmpFile.Close(): an error when the handle is closed already.
CloseResult(rec) == IF rec.tmpOpen THEN "nil" ELSE "os.ErrClosed"

\* defer tmpFile.Close(): the first registered, so the last to run. Its result
\* is dropped.
DeferredTmpClose(p) ==
    /\ st[p].pc = "unwind"
    /\ Last(st[p].defers) = "tmpFile.Close"
    /\ st' = [st EXCEPT ![p] =
                Popped([Logged(@, "fileclose") EXCEPT
                          !.tmpOpen = FALSE, !.dclose = CloseResult(st[p])])]
    /\ fsfiles' = IF Len(st[p].defers) = 1 THEN Released(fsfiles, st[p].ino) ELSE fsfiles
    /\ UNCHANGED <<fsdirs, lastRen, durl, dkind>>

\* The caller has the result and may call again.
Finish(p, maxc) ==
    /\ st[p].pc = "done"
    /\ st[p].calls < maxc
    /\ st' = [st EXCEPT ![p] = [IdleProc EXCEPT !.calls = st[p].calls]]
    /\ UNCHANGED <<fsdirs, fsfiles, lastRen, durl, dkind>>

\* The caller has the result, notes it, and may call again.
Again(p, maxc) ==
    /\ st[p].pc = "done"
    /\ st[p].calls < maxc
    /\ st' = [st EXCEPT ![p] =
                [IdleProc EXCEPT
                   !.calls = st[p].calls,
                   !.prev = [path |-> st[p].path, url |-> st[p].url,
                             body |-> st[p].body, err |-> st[p].err,
                             faulted |-> st[p].faulted,
                             preFiles |-> st[p].preFiles]]]
    /\ UNCHANGED <<fsdirs, fsfiles, lastRen, durl, dkind>>

\* The steps of a call once begun.
Body(p) ==
    \/ MkdirAll(p)
    \/ TempFile(p)
    \/ NewRequest(p)
    \/ Do(p)
    \/ Decoder(p)
    \/ Copy(p)
    \/ Close(p)
    \/ Rename(p)
    \/ DeferredBodyClose(p)
    \/ DeferredCleanup(p)
    \/ DeferredTmpClose(p)

\* ------------------------------------------------------------- Decompress
\* Decompress(client, u, path), translated from its own text.

\* dir as Decompress passes it on: "" becomes ".".
DecompressNormDir(d) == IF d = <<>> THEN <<".">> ELSE d

\* A selection that has lost the xz case.
SelectDecoderNoXz(u) ==
    IF HasSuffix(u.path, <<"g", "z">>) THEN "gzip"
    ELSE IF HasSuffix(u.path, <<"b", "z", "2">>) THEN "bzip2"
    ELSE "raw"

\* The decoder Decompress selects, by the suffix of u.Path: gz, bz2, xz.
DecompressSelectDecoder(u) ==
    IF HasSuffix(u.path, <<"g", "z">>) THEN "gzip"
    ELSE IF HasSuffix(u.path, <<"b", "z", "2">>) THEN "bzip2"
    ELSE IF HasSuffix(u.path, <<"x", "z">>) THEN "xz"
    ELSE "raw"

\* The call begins: path is split and an empty dir becomes ".".
DecompressStart(p, paths, reqs, maxc) ==
    /\ st[p].pc = "idle"
    /\ st[p].calls < maxc
    /\ \E q \in paths, r \in reqs :
         st' = [st EXCEPT ![p] =
                  [IdleProc EXCEPT
                     !.pc = "mkdir", !.calls = st[p].calls + 1, !.fn = "Decompress",
                     !.path = q, !.url = r.url, !.body = r.body, !.status = r.status,
                     !.dir = DecompressNormDir(Split(q).dir), !.file = Split(q).file,
                     !.pre = Visible(fsfiles, q), !.preFiles = Listing(fsfiles),
                     !.preDirs = fsdirs, !.prev = st[p].prev]]
    /\ UNCHANGED <<fsdirs, fsfiles, lastRen, durl, dkind>>

\* os.MkdirAll(dir, 0o755)
DecompressMkdirAll(p) ==
    /\ st[p].pc = "mkdir"
    /\ \/ /\ fsdirs' = fsdirs \cup DirChain(st[p].dir)
          /\ st' = [st EXCEPT ![p] = [Logged(@, "mkdir") EXCEPT !.pc = "tempfile"]]
       \/ /\ CleanDir(st[p].dir) \notin fsdirs
          /\ fsdirs' = fsdirs
          /\ st' = [st EXCEPT ![p] =
                      Ret(Logged(@, "mkdir"),
                          [wrap |-> "", cause |-> "PathError:mkdir"], "mkdir", TRUE)]
    /\ UNCHANGED <<fsfiles, lastRen, durl, dkind>>

\* ioutil.TempFile(dir, file); defer tmpFile.Close(); moved := false; defer
\* the cleanup.
DecompressTempFile(p) ==
    /\ st[p].pc = "tempfile"
    /\ \/ \E n \in TmpCandidates(st[p]) :
            /\ CleanDir(TmpDirFor(st[p].dir)) \in fsdirs
            /\ fsfiles' = [fsfiles EXCEPT ![n] = [ino |-> FreshIno, data |-> <<>>]]
            /\ st' = [st EXCEPT ![p] =
                        [Logged(@, "tempfile") EXCEPT
                           !.pc = "newreq", !.tmpName = n, !.ino = FreshIno,
                           !.tmpOpen = TRUE, !.moved = FALSE,
                           !.defers = <<"tmpFile.Close", "cleanup">>]]
       \/ /\ fsfiles' = fsfiles
          /\ st' = [st EXCEPT ![p] =
                      Ret(Logged(@, "tempfile"),
                          [wrap |-> "create temporary file", cause |-> "PathError:open"],
                          "tempfile", TRUE)]
    /\ UNCHANGED <<fsdirs, lastRen, durl, dkind>>

\* http.NewRequest(http.MethodGet, u.String(), nil)
DecompressNewRequest(p) ==
    /\ st[p].pc = "newreq"
    /\ \/ st' = [st EXCEPT ![p] = [Logged(@, "newreq") EXCEPT !.pc = "do"]]
       \/ st' = [st EXCEPT ![p] =
                   Ret(Logged(@, "newreq"),
                       [wrap |-> "", cause |-> "url.Error:parse"], "newreq", TRUE)]
    /\ UNCHANGED <<fsdirs, fsfiles, lastRen, durl, dkind>>

\* client.Do(req); defer resp.Body.Close()
DecompressDo(p) ==
    /\ st[p].pc = "do"
    /\ \/ st' = [st EXCEPT ![p] =
                   [Logged(@, "do") EXCEPT
                      !.pc = "decoder", !.bodyOpen = TRUE,
                      !.defers = Append(@, "resp.Body.Close")]]
       \/ st' = [st EXCEPT ![p] =
                   Ret(Logged(@, "do"),
                       [wrap |-> "", cause |-> "url.Error:Get"], "do", TRUE)]
    /\ UNCHANGED <<fsdirs, fsfiles, lastRen, durl, dkind>>

\* The switch on the suffix of u.Path and the reader's construction.
DecompressDecoder(p) ==
    /\ st[p].pc = "decoder"
    /\ LET r == NewReader(DecompressSelectDecoder(st[p].url), st[p].body)
       IN  \/ /\ r.ok
              /\ st' = [st EXCEPT ![p] =
                          [Logged(@, "decoder") EXCEPT !.pc = "copy", !.rd = r.rd]]
           \/ /\ ~r.ok
              /\ st' = [st EXCEPT ![p] =
                          Ret(Logged(@, "decoder"),
                              [wrap |-> "", cause |-> r.err], "decoder", FALSE)]
           \/ \* the body's Read fails while the header is read
              /\ DecompressSelectDecoder(st[p].url) \in {"gzip", "xz"}
              /\ st' = [st EXCEPT ![p] =
                          Ret(Logged(@, "decoder"),
                              [wrap |-> "", cause |-> "net.ReadError"], "decoder", TRUE)]
    /\ UNCHANGED <<fsdirs, fsfiles, lastRen, durl, dkind>>

\* io.Copy(tmpFile, r), one Read and one Write at a time.
DecompressCopy(p) ==
    /\ st[p].pc = "copy"
    /\ LET r == Read(st[p].rd, st[p].body)
       IN  \/ /\ r.res = "data"
              /\ fsfiles' = WriteTmp(fsfiles, st[p], r.bytes)
              /\ st' = [st EXCEPT ![p] = [LoggedCopy(@) EXCEPT !.rd = r.rd]]
           \/ \* the Write fails
              /\ r.res = "data" /\ r.bytes # <<>>
              /\ fsfiles' = fsfiles
              /\ st' = [st EXCEPT ![p] =
                          Ret(LoggedCopy(@),
                              [wrap |-> "", cause |-> "PathError:write"], "copy", TRUE)]
           \/ /\ r.res = "eof"
              /\ fsfiles' = fsfiles
              /\ st' = [st EXCEPT ![p] = [LoggedCopy(@) EXCEPT !.pc = "close", !.rd = r.rd]]
           \/ /\ r.res = "err"
              /\ fsfiles' = fsfiles
              /\ st' = [st EXCEPT ![p] =
                          Ret(LoggedCopy(@), [wrap |-> "", cause |-> r.err], "copy", FALSE)]
           \/ \* the body's Read fails
              /\ fsfiles' = fsfiles
              /\ st' = [st EXCEPT ![p] =
                          Ret(LoggedCopy(@),
                              [wrap |-> "", cause |-> "net.ReadError"], "copy", TRUE)]
    /\ UNCHANGED <<fsdirs, lastRen, durl, dkind>>

\* tmpFile.Close()
DecompressClose(p) ==
    /\ st[p].pc = "close"
    /\ \/ st' = [st EXCEPT ![p] =
                   [Logged(@, "close") EXCEPT !.pc = "rename", !.tmpOpen = FALSE]]
       \/ st' = [st EXCEPT ![p] =
                   Ret([Logged(@, "close") EXCEPT !.tmpOpen = FALSE],
                       [wrap |-> "write and close temporary file",
                        cause |-> "PathError:close"], "close", TRUE)]
    /\ UNCHANGED <<fsdirs, fsfiles, lastRen, durl, dkind>>

\* os.Rename(tmpFile.Name(), path); moved = true; return nil
DecompressRename(p) ==
    /\ st[p].pc = "rename"
    /\ \/ /\ Exists(fsfiles, st[p].tmpName)
          /\ fsfiles' = RenameFiles(fsfiles, st[p].tmpName, st[p].path)
          /\ lastRen' = [lastRen EXCEPT ![st[p].path] = p]
          /\ st' = [st EXCEPT ![p] =
                      [Logged(Logged(st[p], "rename"), "disarm") EXCEPT
                         !.pc = "unwind", !.moved = TRUE, !.err = Nil,
                         !.foreign = @ \/ fsfiles[st[p].tmpName].ino # st[p].ino]]
       \/ /\ UNCHANGED <<fsfiles, lastRen>>
          /\ st' = [st EXCEPT ![p] =
                      Ret(Logged(@, "rename"),
                          [wrap |-> "", cause |-> "LinkError:rename"], "rename",
                          Exists(fsfiles, st[p].tmpName))]
    /\ UNCHANGED <<fsdirs, durl, dkind>>

\* defer resp.Body.Close()
DecompressDeferredBodyClose(p) ==
    /\ st[p].pc = "unwind"
    /\ Last(st[p].defers) = "resp.Body.Close"
    /\ st' = [st EXCEPT ![p] = Popped([Logged(@, "bodyclose") EXCEPT !.bodyOpen = FALSE])]
    /\ UNCHANGED <<fsdirs, fsfiles, lastRen, durl, dkind>>

\* defer func() { if !moved { os.Remove(tmpFile.Name()) } }()
DecompressDeferredCleanup(p) ==
    /\ st[p].pc = "unwind"
    /\ Last(st[p].defers) = "cleanup"
    /\ \/ /\ st[p].moved
          /\ fsfiles' = fsfiles
          /\ st' = [st EXCEPT ![p] = Popped(@)]
       \/ /\ ~st[p].moved
          /\ fsfiles' = [fsfiles EXCEPT ![st[p].tmpName] = NoFile]
          /\ st' = [st EXCEPT ![p] =
                      Popped([Logged(@, "remove") EXCEPT
                                !.foreign = @ \/ (/\ Exists(fsfiles, st[p].tmpName)
                                                  /\ fsfiles[st[p].tmpName].ino # st[p].ino)])]
       \/ \* os.Remove fails
          /\ ~st[p].moved
          /\ fsfiles' = fsfiles
          /\ st' = [st EXCEPT ![p] = Popped([Logged(@, "remove") EXCEPT !.faulted = TRUE])]
    /\ UNCHANGED <<fsdirs, lastRen, durl, dkind>>

\* defer tmpFile.Close()
DecompressDeferredTmpClose(p) ==
    /\ st[p].pc = "unwind"
    /\ Last(st[p].defers) = "tmpFile.Close"
    /\ st' = [st EXCEPT ![p] =
                Popped([Logged(@, "fileclose") EXCEPT
                          !.tmpOpen = FALSE, !.dclose = CloseResult(st[p])])]
    /\ fsfiles' = IF Len(st[p].defers) = 1 THEN Released(fsfiles, st[p].ino) ELSE fsfiles
    /\ UNCHANGED <<fsdirs, lastRen, durl, dkind>>

\* The steps of a call of Decompress once begun.
DecompressBody(p) ==
    \/ DecompressMkdirAll(p)
    \/ DecompressTempFile(p)
    \/ DecompressNewRequest(p)
    \/ DecompressDo(p)
    \/ DecompressDecoder(p)
    \/ DecompressCopy(p)
    \/ DecompressClose(p)
    \/ DecompressRename(p)
    \/ DecompressDeferredBodyClose(p)
    \/ DecompressDeferredCleanup(p)
    \/ DecompressDeferredTmpClose(p)

\* One caller, calling Download again and again.
Next ==
    \/ Start(1, DestPaths, Requests, MaxCalls)
    \/ Body(1)
    \/ Finish(1, MaxCalls)

Spec == Init /\ [][Next]_vars

\* Two callers, one call each, interleaved at every step. The callers are
\* interchangeable: caller 1 names the one that begins first.
InitConc ==
    /\ Init
    /\ ~Exists(fsfiles, <<"d", "/", "a">>)

NextConc ==
    \/ Start(1, ConcPaths, ConcRequests, 1)
    \/ (st[1].pc # "idle" /\ Start(2, ConcPaths, ConcRequests, 1))
    \/ \E p \in Procs : Body(p)

SpecConc == InitConc /\ [][NextConc]_vars

\* One caller calling Download several times in succession, noting each result.
NextTwice ==
    \/ Start(1, TwicePaths, TwiceRequests, MaxCalls)
    \/ Body(1)
    \/ Again(1, MaxCalls)

SpecTwice == Init /\ [][NextTwice]_vars

\* One call, of Download or of Decompress, with a destination up to two
\* directories down and any of the responses.
NextOnce ==
    \/ Start(1, TreePaths, OnceRequests, 1)
    \/ DecompressStart(1, TreePaths, OnceRequests, 1)
    \/ (st[1].fn = "Download" /\ Body(1))
    \/ (st[1].fn = "Decompress" /\ DecompressBody(1))

SpecOnce == Init /\ [][NextOnce]_vars

\* The decoder selection alone, over every short URL path and query.
MaxUrlLen == 3

UrlChars == {"g", "z", "b", "2", "x", "G", "."}

StringsUpTo(n) == UNION { [1..k -> UrlChars] : k \in 0..n }

InitDec ==
    /\ InitFS
    /\ st = [p \in Procs |-> IdleProc]
    /\ lastRen = [q \in AllPaths |-> 0]
    /\ durl \in { [path |-> pth, query |-> q] :
                    pth \in StringsUpTo(MaxUrlLen), q \in {<<>>, <<"g", "z">>, <<"x", "z">>} }
    /\ dkind = "unset"

NextDec ==
    /\ dkind = "unset"
    /\ dkind' = SelectDecoder(durl)
    /\ UNCHANGED <<fsdirs, fsfiles, st, lastRen, durl>>

SpecDec == InitDec /\ [][NextDec]_vars

\* ------------------------------------------------------------- properties

Count(seq, x) == Cardinality({ i \in 1..Len(seq) : seq[i] = x })

Done(p) == st[p].pc = "done"

\* The decoder a path calls for, read off its last characters.
SuffixKind(pth) ==
    LET n == Len(pth)
    IN  IF n >= 2 /\ pth[n - 1] = "g" /\ pth[n] = "z" THEN "gzip"
        ELSE IF n >= 3 /\ pth[n - 2] = "b" /\ pth[n - 1] = "z" /\ pth[n] = "2" THEN "bzip2"
        ELSE IF n >= 2 /\ pth[n - 1] = "x" /\ pth[n] = "z" THEN "xz"
        ELSE "raw"

\* The data a whole body stands for under a decoder; <<-1>> when the body is
\* not a well-formed stream of that format.
Decompressed(kind, body) ==
    IF kind = "raw" THEN body
    ELSE LET cands == { d \in { SubSeq(body, 3, k) : k \in 2..Len(body) } :
                          Compress(kind, d) = body }
         IN  IF cands = {} THEN <<-1>> ELSE CHOOSE d \in cands : TRUE

Expected(rec) == Decompressed(SuffixKind(rec.url.path), rec.body)

\* C1: when Download returns an error, whatever the stage that failed, the
\* destination path is as it was before the call: absent if it was absent, with
\* its previous content if it existed.
C1_DestinationUntouchedOnError ==
    \A p \in Procs :
      (st[p].pc \in {"unwind", "done"} /\ st[p].err # Nil)
        => Visible(fsfiles, st[p].path) = st[p].pre

C1_Witness ==
    /\ Done(1)
    /\ st[1].failStage = "rename"
    /\ st[1].pre = <<"file", <<7>>>>
    /\ Visible(fsfiles, st[1].path) = <<"file", <<7>>>>

\* C2: at every moment of a call the destination shows either what it showed
\* before the call or the complete decoded response, the latter only once the
\* rename has happened; and the rename is attempted only with the copy at end
\* of stream and the temporary file closed.
C2_NeverPartialAtDestination ==
    \A p \in Procs :
      /\ st[p].pc # "idle" =>
           Visible(fsfiles, st[p].path) =
             (IF st[p].moved THEN <<"file", Expected(st[p])>> ELSE st[p].pre)
      /\ st[p].pc = "rename" =>
           (~st[p].tmpOpen /\ Read(st[p].rd, st[p].body).res = "eof")

C2_Witness ==
    /\ st[1].pc = "copy"
    /\ st[1].pre = <<"file", <<7>>>>
    /\ Exists(fsfiles, st[1].tmpName)
    /\ fsfiles[st[1].tmpName].data = <<2>>
    /\ Expected(st[1]) = <<2, 1>>

\* C3: after any call has returned, the files that exist are those that
\* existed before the call, plus the destination if the call succeeded.
C3_NoTemporaryFileRemains ==
    \A p \in Procs :
      Done(p) =>
        Listing(fsfiles) =
          st[p].preFiles \cup (IF st[p].err = Nil THEN {st[p].path} ELSE {})

\* C4: when Download returns nil, the destination exists and holds the decoded
\* body: the decompressed stream when the URL path has the suffix of a format,
\* the body itself otherwise.
C4_SuccessContent ==
    \A p \in Procs :
      (Done(p) /\ st[p].err = Nil)
        => Visible(fsfiles, st[p].path) = <<"file", Expected(st[p])>>

C4_Witness ==
    /\ Done(1)
    /\ st[1].err = Nil
    /\ st[1].pre = <<"file", <<7>>>>
    /\ SuffixKind(st[1].url.path) = "gzip"
    /\ Visible(fsfiles, st[1].path) = <<"file", <<2, 1>>>>

\* C5: the cleanup is registered and armed from the creation of the temporary
\* file on; a call that created one runs the removal exactly once if it returns
\* an error and never if it returns nil; the guard is disarmed at most once, and
\* only directly after the rename of a call that returns nil.
C5_CleanupGuard ==
    \A p \in Procs :
      LET rec == st[p]
      IN  /\ rec.pc \in {"newreq", "do", "decoder", "copy", "close", "rename"}
               => (~rec.moved /\ Count(rec.defers, "cleanup") = 1)
          /\ (rec.pc = "done" /\ Count(rec.log, "tempfile") = 1 /\ rec.failStage # "tempfile")
               => Count(rec.log, "remove") = (IF rec.err = Nil THEN 0 ELSE 1)
          /\ Count(rec.log, "disarm") <= 1
          /\ \A i \in 1..Len(rec.log) :
               rec.log[i] = "disarm" => (i > 1 /\ rec.log[i - 1] = "rename" /\ rec.err = Nil)
          /\ rec.moved <=> Count(rec.log, "disarm") = 1

C5_Witness ==
    /\ Done(1)
    /\ st[1].failStage = "rename"
    /\ Count(st[1].log, "remove") = 1
    /\ ~st[1].moved

\* The request's body is a well-formed stream for the decoder its URL selects.
WellFormed(rec) == Expected(rec) # <<-1>>

\* C6: two calls with the same destination, neither meeting an I/O failure,
\* both return nil, and the destination then holds the complete decoded body of
\* the call whose rename landed last; while they run, the destination shows
\* what it showed before or the complete decoded body of one of them.
C6_SameDestinationLastWriterWins ==
    \A p, q \in Procs :
      (/\ p # q /\ st[p].pc # "idle" /\ st[q].pc # "idle"
       /\ st[p].path = st[q].path)
        => /\ Visible(fsfiles, st[p].path) \in
                {st[p].pre, st[q].pre,
                 <<"file", Expected(st[p])>>, <<"file", Expected(st[q])>>}
           /\ (/\ Done(p) /\ Done(q)
               /\ ~st[p].faulted /\ ~st[q].faulted
               /\ WellFormed(st[p]) /\ WellFormed(st[q]))
                => /\ st[p].err = Nil /\ st[q].err = Nil
                   /\ lastRen[st[p].path] \in {p, q}
                   /\ Visible(fsfiles, st[p].path) =
                        <<"file", Expected(st[lastRen[st[p].path]])>>

\* Caller 2 has returned while caller 1, which began first, is about to
\* rename; in the end caller 1's body is at the destination.
C6_Witness ==
    /\ Done(1) /\ Done(2)
    /\ st[1].path = <<"a">> /\ st[2].path = <<"a">>
    /\ st[1].err = Nil /\ st[2].err = Nil
    /\ Expected(st[1]) # Expected(st[2])
    /\ lastRen[<<"a">>] = 1
    /\ Visible(fsfiles, <<"a">>) = <<"file", Expected(st[1])>>

\* n is a name ioutil.TempFile may give the temporary file of destination pth:
\* in pth's directory, pth's base name followed by digits.
IsTmpNameOf(n, pth) ==
    LET a == Split(n)
        b == Split(pth)
    IN  /\ a.dir = b.dir
        /\ Len(a.file) > Len(b.file)
        /\ SubSeq(a.file, 1, Len(b.file)) = b.file
        /\ \A i \in (Len(b.file) + 1)..Len(a.file) : a.file[i] \in {"0", "1", "2", "3", "4", "5", "6", "7", "8", "9"}

\* What the claim says of caller p next to another caller q.
NoInterference(p, q) ==
    /\ (st[p].tmpName # <<>> /\ st[p].pc # "done")
         => /\ st[p].tmpName # st[q].path
            /\ (st[q].tmpName # <<>> /\ st[q].pc # "done")
                 => st[p].tmpName # st[q].tmpName
    /\ ~st[p].foreign
    /\ Done(p) =>
         /\ (~st[p].faulted /\ WellFormed(st[p])) => st[p].err = Nil
         /\ st[p].err = Nil => Visible(fsfiles, st[p].path) = <<"file", Expected(st[p])>>
         /\ st[p].err # Nil => Visible(fsfiles, st[p].path) = st[p].pre

C8_BodyClosedOnEveryExit ==
    \A p \in Procs :
      (Done(p) /\ Count(st[p].log, "do") = 1 /\ st[p].failStage # "do")
        => (~st[p].bodyOpen /\ Count(st[p].log, "bodyclose") = 1)

C8_Witness ==
    /\ Done(1)
    /\ st[1].failStage = "decoder"
    /\ Count(st[1].log, "bodyclose") = 1

C10_StageDistinguishable ==
    \A p, q \in Procs :
      (/\ Done(p) /\ Done(q)
       /\ st[p].err # Nil /\ st[q].err # Nil
       /\ st[p].failStage # st[q].failStage)
        => st[p].err # st[q].err

\* The transport has returned a response to the call.
GotResponse(rec) == Count(rec.log, "do") = 1 /\ rec.failStage # "do"

\* C11: Download does not check the status of the response: once the transport
\* has returned one, whatever its status, the call goes on to the decoder and
\* the copy, and when nothing else fails it returns nil with the decoded body
\* at the destination.
C11_NoStatusCheck ==
    \A p \in Procs :
      (st[p].fn = "Download" /\ Done(p) /\ GotResponse(st[p]))
        => /\ Count(st[p].log, "decoder") = 1
           /\ st[p].failStage # "decoder" => Count(st[p].log, "copy") = 1
           /\ (~st[p].faulted /\ WellFormed(st[p]))
                => /\ st[p].err = Nil
                   /\ Visible(fsfiles, st[p].path) = <<"file", Expected(st[p])>>

C11_Witness ==
    /\ Done(1)
    /\ st[1].fn = "Download"
    /\ st[1].status = 500
    /\ st[1].err = Nil
    /\ Visible(fsfiles, st[1].path) = <<"file", <<1, 2>>>>

\* C12: two calls of Download in succession with the same destination, each
\* with a well-formed response and no I/O failure, both return nil; the
\* destination then holds the second call's decoded body, and the files that
\* exist are those from before the first call and the destination.
C12_SecondCallOverwrites ==
    \A p \in Procs :
      (/\ Done(p) /\ st[p].prev.path = st[p].path
       /\ ~st[p].prev.faulted /\ WellFormed(st[p].prev)
       /\ ~st[p].faulted /\ WellFormed(st[p]))
        => /\ st[p].prev.err = Nil
           /\ st[p].err = Nil
           /\ Visible(fsfiles, st[p].path) = <<"file", Expected(st[p])>>
           /\ Listing(fsfiles) = st[p].prev.preFiles \cup {st[p].path}

C12_Witness ==
    /\ Done(1)
    /\ st[1].path = <<"a">> /\ st[1].prev.path = <<"a">>
    /\ st[1].prev.err = Nil /\ st[1].err = Nil
    /\ Expected(st[1].prev) = <<1, 2>> /\ Expected(st[1]) = <<2, 1>>
    /\ st[1].pre = <<"file", <<1, 2>>>>
    /\ Visible(fsfiles, <<"a">>) = <<"file", <<2, 1>>>>
    /\ Listing(fsfiles) = {<<"a">>}

\* C13: the directory Download passes to ioutil.TempFile is never empty (an
\* empty directory component of the destination has become "."), and the
\* temporary file is in the destination's directory, never in the default
\* directory for temporary files.
C13_TempFileBesideDestination ==
    \A p \in Procs :
      /\ st[p].pc # "idle" =>
           /\ st[p].dir # <<>>
           /\ Split(st[p].path).dir = <<>> => st[p].dir = <<".">>
      /\ st[p].tmpName # <<>> =>
           /\ Split(st[p].tmpName).dir = Split(st[p].path).dir
           /\ CleanDir(Split(st[p].tmpName).dir) # TempDir

C13_Witness ==
    /\ st[1].fn = "Download"
    /\ st[1].pc = "newreq"
    /\ st[1].path = <<"a">>
    /\ st[1].dir = <<".">>
    /\ st[1].tmpName = <<"a", "1">>
    /\ Exists(fsfiles, <<"a", "1">>)

\* C14: Download and Decompress behave alike: from any state of a call, with
\* the same inputs, filesystem and failures, every step one of them can take
\* (a filesystem or network operation, a return, a deferred call) is a step the
\* other can take, with the same effect on the files, the same result and the
\* same trace of operations; and both begin a call with the same dir and file.
C14_DownloadDecompressEquivalent ==
    [][\A p \in Procs :
         /\ Body(p) <=> DecompressBody(p)
         /\ (st[p].pc = "idle" /\ st'[p].pc = "mkdir") =>
              /\ st'[p].dir = NormDir(Split(st'[p].path).dir)
              /\ st'[p].dir = DecompressNormDir(Split(st'[p].path).dir)
              /\ st'[p].file = Split(st'[p].path).file]_vars

C14_Witness ==
    /\ Done(1)
    /\ st[1].fn = "Decompress"
    /\ st[1].path = <<"d", "/", "a">>
    /\ SuffixKind(st[1].url.path) = "xz"
    /\ st[1].err = Nil
    /\ Visible(fsfiles, st[1].path) = <<"file", <<1, 1>>>>

\* The directories above a path: every prefix that ends before a separator.
Parents(pth) == { SubSeq(pth, 1, i - 1) : i \in { j \in 1..Len(pth) : pth[j] = "/" } }

\* The position of the first ev in a trace, 0 when there is none.
Pos(log, ev) ==
    IF \E i \in 1..Len(log) : log[i] = ev
    THEN CHOOSE i \in 1..Len(log) : log[i] = ev /\ \A j \in 1..(i - 1) : log[j] # ev
    ELSE 0

\* C15: a call of Download that returns nil has created every missing directory
\* above the destination, and the destination; whenever the temporary file has
\* been created its directory was created before it, and whenever the request
\* has been sent the temporary file was created before that.
C15_CreatesDirectoryTree ==
    \A p \in Procs :
      LET rec == st[p]
      IN  st[p].fn = "Download" =>
            /\ (Done(p) /\ rec.err = Nil) =>
                 /\ Parents(rec.path) \subseteq fsdirs
                 /\ Exists(fsfiles, rec.path)
            /\ Pos(rec.log, "tempfile") > 0 =>
                 /\ 0 < Pos(rec.log, "mkdir")
                 /\ Pos(rec.log, "mkdir") < Pos(rec.log, "tempfile")
            /\ rec.tmpName # <<>> => Parents(rec.path) \subseteq fsdirs
            /\ Pos(rec.log, "do") > 0 =>
                 /\ 0 < Pos(rec.log, "tempfile")
                 /\ Pos(rec.log, "tempfile") < Pos(rec.log, "do")
                 /\ rec.tmpName # <<>>

C15_Witness ==
    /\ Done(1)
    /\ st[1].fn = "Download"
    /\ st[1].path = <<"d", "/", "e", "/", "a">>
    /\ st[1].preDirs \cap {<<"d">>, <<"d", "/", "e">>} = {}
    /\ st[1].err = Nil
    /\ {<<"d">>, <<"d", "/", "e">>} \subseteq fsdirs
    /\ Visible(fsfiles, st[1].path) = <<"file", <<1, 2>>>>
    /\ SubSeq(st[1].log, 1, 4) = <<"mkdir", "tempfile", "newreq", "do">>

\* The stages of a call, in the order of the text of Download.
StageOrder ==
    <<"mkdir", "tempfile", "newreq", "do", "decoder", "copy", "close", "rename">>

IsStage(ev) == \E i \in 1..Len(StageOrder) : StageOrder[i] = ev

\* The stages a call has run, in the order it ran them.
StageLog(log) == SelectSeq(log, IsStage)

\* The errors a failing stage returns.
StageErrors(stage) ==
    CASE stage = "mkdir"    -> {[wrap |-> "", cause |-> "PathError:mkdir"]}
      [] stage = "tempfile" -> {[wrap |-> "create temporary file", cause |-> "PathError:open"]}
      [] stage = "newreq"   -> {[wrap |-> "", cause |-> "url.Error:parse"]}
      [] stage = "do"       -> {[wrap |-> "", cause |-> "url.Error:Get"]}
      [] stage \in {"decoder", "copy"} ->
           { [wrap |-> "", cause |-> c] :
               c \in {"io.EOF", "io.ErrUnexpectedEOF", "net.ReadError", "PathError:write",
                      "gzip.ErrHeader", "gzip.ErrChecksum", "bzip2.StructuralError",
                      "xz.errHeaderMagic", "xz.errChecksum"} }
      [] stage = "close"    -> {[wrap |-> "write and close temporary file",
                                 cause |-> "PathError:close"]}
      [] stage = "rename"   -> {[wrap |-> "", cause |-> "LinkError:rename"]}
      [] OTHER              -> {}

\* C16: the stages of a call run in the order of StageOrder, each at most once;
\* the call that has failed has run no stage after the one that failed and
\* returns that stage's error, whatever the deferred removal and closes did;
\* the call that returns nil has run them all.
C16_StagesInOrderFirstFailureReturned ==
    \A p \in Procs :
      LET rec == st[p]
          run == StageLog(rec.log)
      IN  /\ run = SubSeq(StageOrder, 1, Len(run))
          /\ rec.pc \in {"unwind", "done"} =>
               /\ rec.err # Nil =>
                    /\ run # <<>> /\ Last(run) = rec.failStage
                    /\ rec.err \in StageErrors(rec.failStage)
               /\ rec.err = Nil => (run = StageOrder /\ rec.failStage = "none")
          /\ (rec.pc \notin {"idle", "unwind", "done"}) =>
               (rec.err = Nil /\ rec.failStage = "none"
                /\ \/ rec.pc = StageOrder[Len(run) + 1]
                   \/ (rec.pc = "copy" /\ Len(run) = 6))

\* The copy failed on a checksum, then the removal failed and the deferred
\* close ran: the checksum error is what the call returns.
C16_Witness ==
    /\ Done(1)
    /\ st[1].failStage = "copy"
    /\ st[1].err = [wrap |-> "", cause |-> "gzip.ErrChecksum"]
    /\ st[1].faulted
    /\ Exists(fsfiles, st[1].tmpName)
    /\ st[1].log = <<"mkdir", "tempfile", "newreq", "do", "decoder", "copy",
                     "bodyclose", "remove", "fileclose">>

\* The body does not begin with the magic of the format.
InvalidHeader(kind, body) ==
    \/ Len(body) < Len(Magic(kind))
    \/ SubSeq(body, 1, Len(Magic(kind))) # Magic(kind)

\* Where a call that has got a response fails on a body with an invalid header:
\* for gz and xz in the decoder stage, nothing having been copied; for bz2 never
\* in the decoder stage but in the copy, nothing having been written.
FailsWhereHeaderIsRead(rec) ==
    LET kind == SuffixKind(rec.url.path)
    IN  /\ (kind \in {"gzip", "xz"} /\ InvalidHeader(kind, rec.body)) =>
             /\ rec.pc \notin {"copy", "close", "rename"}
             /\ rec.pc \in {"unwind", "done"} =>
                  (rec.failStage = "decoder" /\ Count(rec.log, "copy") = 0)
        /\ kind = "bzip2" =>
             /\ rec.failStage # "decoder"
             /\ InvalidHeader(kind, rec.body) =>
                  /\ rec.pc \notin {"close", "rename"}
                  /\ rec.pc \in {"unwind", "done"} =>
                       (rec.failStage = "copy" /\ Count(rec.log, "copy") = 1)
        /\ (kind # "raw" /\ InvalidHeader(kind, rec.body) /\ rec.tmpName # <<>>
            /\ Exists(fsfiles, rec.tmpName))
             => fsfiles[rec.tmpName].data = <<>>

\* The part of C17 about the stage alone.
HeaderStageInv ==
    \A p \in Procs :
      (st[p].fn = "Download" /\ GotResponse(st[p])) => FailsWhereHeaderIsRead(st[p])

\* C17: a body with an invalid header makes Download fail in the decoder stage
\* for gz and xz, before anything is written, and in the copy for bz2, whose
\* decoder stage never fails; and when the call has returned, the temporary
\* file is gone and the destination is as it was.
C17_HeaderEagerOrLazyThenCleanedUp ==
    \A p \in Procs :
      (st[p].fn = "Download" /\ GotResponse(st[p]))
        => /\ FailsWhereHeaderIsRead(st[p])
           /\ (/\ Done(p)
               /\ SuffixKind(st[p].url.path) # "raw"
               /\ InvalidHeader(SuffixKind(st[p].url.path), st[p].body))
                => /\ ~Exists(fsfiles, st[p].tmpName)
                   /\ Visible(fsfiles, st[p].path) = st[p].pre

\* C18: Download returns nil exactly when its rename onto the destination
\* succeeded. No rename has landed while a stage is still to run; a call that
\* returns an error has left the destination as it was; a call that returns
\* nil has put the decoded body there.
C18_NilIffRenamed ==
    \A p \in Procs :
      LET rec == st[p]
          renamed == lastRen[rec.path] = p
      IN  (rec.fn = "Download" /\ rec.pc # "idle") =>
            /\ rec.pc \notin {"unwind", "done"} => (~renamed /\ rec.err = Nil)
            /\ rec.pc \in {"unwind", "done"} => (rec.err = Nil <=> renamed)
            /\ renamed =>
                 (rec.err = Nil /\ Visible(fsfiles, rec.path) = <<"file", Expected(rec)>>)
            /\ ~renamed => Visible(fsfiles, rec.path) = rec.pre

\* The rename has just replaced an existing destination; the deferred calls
\* have still to run.
C18_Witness ==
    /\ st[1].fn = "Download"
    /\ st[1].pc = "unwind"
    /\ Len(st[1].defers) = 3
    /\ lastRen[st[1].path] = 1
    /\ st[1].err = Nil
    /\ st[1].pre = <<"file", <<7>>>>
    /\ Visible(fsfiles, st[1].path) = <<"file", <<2, 2>>>>

\* The call has failed after os.MkdirAll created at least one directory.
FailedAfterMkdir(rec) ==
    /\ rec.pc = "done" /\ rec.err # Nil
    /\ rec.failStage # "mkdir"
    /\ Parents(rec.path) \ rec.preDirs # {}

\* The part of C19 about the directories alone: they stay.
DirectoriesKeptInv ==
    \A p \in Procs :
      (st[p].fn = "Download" /\ FailedAfterMkdir(st[p]))
        => fsdirs = st[p].preDirs \cup Parents(st[p].path)

\* C19: after a call that created directories and then failed, the directories
\* it created are there and nothing else has changed: the files that exist are
\* those that existed before, and the destination is as it was.
C19_OnlyDirectoriesRemain ==
    \A p \in Procs :
      (st[p].fn = "Download" /\ FailedAfterMkdir(st[p]))
        => /\ fsdirs = st[p].preDirs \cup Parents(st[p].path)
           /\ Listing(fsfiles) = st[p].preFiles
           /\ Visible(fsfiles, st[p].path) = st[p].pre

\* The call has created its temporary file.
CreatedTmp(rec) == Count(rec.log, "tempfile") = 1 /\ rec.failStage # "tempfile"

\* C20: a call of Download that created the temporary file has closed its
\* handle by the time it has returned. Returning before the explicit Close, it
\* runs the removal, on the handle still open, and then the one deferred Close.
\* Returning nil, it has closed the handle before the rename and closes it a
\* second time in the deferred Close, which reports that the file is closed
\* already; the result stays nil and the destination holds the decoded body.
C20_HandleClosedOnEveryExit ==
    \A p \in Procs :
      LET rec == st[p]
      IN  (rec.fn = "Download" /\ CreatedTmp(rec)) =>
            /\ Done(p) =>
                 /\ ~rec.tmpOpen
                 /\ Count(rec.log, "close") + Count(rec.log, "fileclose") >= 1
                 /\ Count(rec.log, "fileclose") = 1
                 /\ Last(rec.log) = "fileclose"
            /\ (rec.pc = "unwind" /\ Last(rec.defers) = "cleanup"
                /\ Count(rec.log, "close") = 0) => rec.tmpOpen
            /\ (Done(p) /\ Count(rec.log, "close") = 0) =>
                 /\ rec.err # Nil
                 /\ rec.dclose = "nil"
                 /\ 0 < Pos(rec.log, "remove")
                 /\ Pos(rec.log, "remove") < Pos(rec.log, "fileclose")
            /\ (Done(p) /\ rec.err = Nil) =>
                 /\ Count(rec.log, "close") = 1
                 /\ Pos(rec.log, "close") < Pos(rec.log, "rename")
                 /\ Pos(rec.log, "rename") < Pos(rec.log, "fileclose")
                 /\ rec.dclose = "os.ErrClosed"
                 /\ Visible(fsfiles, rec.path) = <<"file", Expected(rec)>>
            /\ (rec.pc = "unwind" /\ Last(rec.defers) = "tmpFile.Close") =>
                 Visible(fsfiles, rec.path) =
                   (IF rec.err = Nil THEN <<"file", Expected(rec)>> ELSE rec.pre)

C20_Witness ==
    /\ Done(1)
    /\ st[1].fn = "Download"
    /\ st[1].err = Nil
    /\ st[1].dclose = "os.ErrClosed"
    /\ st[1].log = <<"mkdir", "tempfile", "newreq", "do", "decoder", "copy", "close",
                     "rename", "disarm", "bodyclose", "fileclose">>
    /\ Visible(fsfiles, st[1].path) = <<"file", <<1, 1>>>>

====
